---- MODULE Spec2Model ----
(***************************************************************************)
(* Historical export of the Coinalyze pipeline (src/historical_export.py): *)
(* main() walks symbols x intervals x days, export_day() walks the         *)
(* categories of one day.  The durable state is the per-(symbol, interval) *)
(* completion file under OUT_ROOT/_state and the per-unit artifact files.  *)
(* The environment is the upstream (any response or error per call), the   *)
(* local disk (a write may raise), the shutdown signal, and the operating  *)
(* system killing and restarting the process.                              *)
(***************************************************************************)
EXTENDS Integers, Sequences, FiniteSets, TLC

\* ---------------------------------------------------------------- inputs
\* START_DATE and END_DATE (environment) as day numbers; the range is inclusive.
START_DATE == 1
END_DATE == 2
\* Number of environment events explored in one behaviour: failed upstream calls,
\* local disk faults (a write that raises OSError), shutdown signals and restarts.
MaxEvents == 3
\* MAX_RETRIES (environment, default 8): attempts per unit before 'error:'.
MAX_RETRIES == 2

SYMBOLS == <<"BTCUSDT_PERP.A", "ETHUSDT_PERP.A">>
INTERVALS == <<"1min">>
\* The keys of ENDPOINTS in declared (dict insertion) order; the first two of six.
ENDPOINTS == <<"ohlcv", "oi">>

NumSymbols == Len(SYMBOLS)
NumIntervals == Len(INTERVALS)
NumCats == Len(ENDPOINTS)

Pairs == (1..NumSymbols) \X (1..NumIntervals)
Days == START_DATE..END_DATE
Keys == Days \X (1..NumCats)
Units == (1..NumSymbols) \X (1..NumIntervals) \X Days \X (1..NumCats)

\* The enumerator order: symbol, then interval, then day ascending, then category
\* in declared order; Rank(u) is the position of u in it, EnumSeq the sequence.
NumUnits == Cardinality(Units)
Rank(u) == (((u[1] - 1) * NumIntervals + (u[2] - 1)) * Cardinality(Days)
             + (u[3] - START_DATE)) * NumCats + u[4]
EnumSeq == [k \in 1..NumUnits |-> CHOOSE u \in Units : Rank(u) = k]

PairOf(u) == <<u[1], u[2]>>
done_key(u) == <<u[3], u[4]>>

\* Variant: the symbol is left out of the file name.
state_path_no_symbol(s, i) == <<1, i>>

\* Lines 155 and 171: OUT_ROOT/_state/<symbol>_<interval>.json, the state file of
\* the pair (symbol s, interval i).
state_path(s, i) == <<s, i>>

\* ---------------------------------------------------------------- JSON values
\* A JSON value of an upstream response: a number, a dict (with or without a
\* "history" key, whose value is null, a list or a number) or a list of such values.
Num(n) == [t |-> "num", n |-> n, hist |-> "nokey", history |-> <<>>, items |-> <<>>]
Dict(h, l) == [t |-> "dict", n |-> 0, hist |-> h, history |-> l, items |-> <<>>]
List(l) == [t |-> "list", n |-> 0, hist |-> "nokey", history |-> <<>>, items |-> l]
\* {"history": n}: a dict whose "history" value is the number n, not a list.
DictNum(n) == [t |-> "dict", n |-> n, hist |-> "num", history |-> <<>>, items |-> <<>>]

\* What the upstream answers with on a 200.  The data of one (symbol, interval, day)
\* window is historical, hence the same on every call; the shape depends on the
\* endpoint: [{"symbol":..,"history":[1,2]}] for ohlcv, {"history":[d]} otherwise.
\* The second symbol has no open-interest history: {"history":[]} for the first
\* day, {"history":null} after it.
UpstreamData(u) ==
    IF ENDPOINTS[u[4]] = "ohlcv"
    THEN List(<<Dict("list", <<Num(1), Num(2)>>)>>)
    ELSE IF u[1] = 1 THEN Dict("list", <<Num(u[3])>>)
    ELSE IF u[3] = START_DATE THEN Dict("list", <<>>)
    ELSE Dict("null", <<>>)

\* What a failed call raises: requests.HTTPError (raise_for_status) or a timeout.
UpstreamErrors == {"HTTPError", "Timeout"}

\* Lines 104 and 107: d.get("history") or [].  A list is returned as it is (an empty
\* one is falsy and replaced by []), null and 0 are falsy, any other number is
\* returned as it is.
HistoryOrEmpty(d) ==
    IF d.hist = "list" THEN List(d.history)
    ELSE IF d.hist = "num" /\ d.n # 0 THEN Num(d.n)
    ELSE List(<<>>)

\* Lines 100-108.  The result is a JSON value: a list in the accepted shapes.
unwrap_history(resp) ==
    IF resp.t = "list"
    THEN IF Len(resp.items) > 0 /\ resp.items[1].t = "dict" /\ resp.items[1].hist # "nokey"
         THEN HistoryOrEmpty(resp.items[1])
         ELSE resp
    ELSE IF resp.t = "dict" /\ resp.hist # "nokey"
         THEN HistoryOrEmpty(resp)
         ELSE List(<<>>)

\* Variant: `if rows:` in place of the isinstance test, so that an empty list is
\* written as one line.
LinesOfTruthy(r) == IF r.t = "list" /\ r.items # <<>> THEN r.items ELSE <<r>>

\* Lines 84-88: the lines write_jsonl writes for `rows`: one per element of a list,
\* one for the whole value otherwise.
Lines(r) == IF r.t = "list" THEN r.items ELSE <<r>>

\* ---------------------------------------------------------------- files
EmptyState == [k \in Keys |-> "absent"]
NoFile == [kind |-> "missing", data |-> EmptyState]
\* A state file opened for writing and not yet written: empty, not valid JSON.
TruncatedFile == [kind |-> "truncated", data |-> EmptyState]
JsonFile(st) == [kind |-> "json", data |-> st]

NoArtifact == [exists |-> FALSE, rows |-> <<>>]

\* Variant: the file is never read.
load_state_empty(file) == EmptyState

\* Lines 90-94: the parsed file, {} when it is missing or not valid JSON.
load_state(file) == IF file.kind = "json" THEN file.data ELSE EmptyState

\* Variant: the failure is not recorded.
ErrorStatusDropped(e) == "absent"

\* Line 148: f"error:{repr(e)}".
ErrorStatus(e) == "error:" \o e
IsError(st) == st \notin {"absent", "ok"}
IsTerminal(st) == st # "absent"

VARIABLES
    disk,        \* OUT_ROOT/_state/<symbol>_<interval>.json, per pair
    art,         \* OUT_ROOT/<symbol>/<interval>/<day>/<key>.jsonl, per unit
    pc,          \* position of the process
    si, ii, di, ci,   \* loop indices: symbol, interval, day, category
    state,       \* the in-memory dict `state` of the current pair
    tries,       \* export_day's attempt counter
    rows,        \* export_day's `rows`
    wi,          \* rows of `rows` already written by write_jsonl
    shutdown,    \* the global flag set by the signal handler
    run,         \* number of process starts so far
    \* history variables (observations, never read by the program)
    events,      \* environment events so far
    fetchedOk,   \* units whose endpoint call has returned a payload, in any run
    fetchSeq,    \* units for which this run called the endpoint, in order of first call
    visited,     \* units this run reached at the skip test, in order
    skipped,     \* units this run skipped
    exhausted,   \* units that used up MAX_RETRIES in this run
    startDisk,   \* disk at the start of this run
    startArt,    \* art at the start of this run
    \* the client (src/coinalyze_api.py), in the specifications that follow one
    \* endpoint call request by request
    resp,        \* the argument of unwrap_history, where it is checked alone
    key_cycle,   \* position of _key_cycle in _API_KEYS
    cpc,         \* position inside the endpoint call
    pi,          \* index in `paths` of the path _get_failover is trying
    retry,       \* re-issues the HTTP adapter has used in the current session.get
    \* history variables of the client
    usedKey,     \* key of the Authorization header of the latest _get call
    calls,       \* _get calls since the process started
    lastResp,    \* the latest response to a request for the current unit
    seen,        \* the statuses of all responses for the current unit in this run
    requests,    \* HTTP requests sent for the current unit in this run
    waited,      \* milliseconds slept since the latest response, or in the pacing sleep
    pathLog,     \* per path of the current endpoint call: _get calls, requests, last status
    \* arguments and results of the pure functions, where they are checked alone
    calc,
    \* the live loop (src/coinalyze_loop.py) and its sink (src/data_sink.py)
    lpc,         \* position of main_loop
    now,         \* time.time(), in seconds
    fs,          \* the entries and files under DATA_DIR/<symbol>
    pack,        \* main_loop's `pack`
    cycle,       \* main_loop's `cycle`
    idx,         \* main_loop's `idx`
    backoff,     \* main_loop's `backoff`
    snapshot_path,   \* main_loop's `snapshot_path`
    \* history variables of the live loop
    iter,        \* iterations of main_loop begun, calls of the sink made
    faults,      \* failures and kills so far
    posts,       \* what the Discord post of the current cycle did
    fails,       \* failed cycles since the latest successful one or the start
    served,      \* intervals of the successful cycles since the process started
    sleep_sec,   \* SLEEP_SEC as the environment configures it
    \* the read API (src/coinalyze_api_server.py)
    cache,       \* _cache: entries of key, expiry and payload
    reply        \* the latest request and what was returned for it

vars == <<disk, art, pc, si, ii, di, ci, state, tries, rows, wi, shutdown, run,
          events, fetchedOk, fetchSeq, visited, skipped, exhausted,
          startDisk, startArt,
          resp, key_cycle, cpc, pi, retry, usedKey, calls, lastResp, seen,
          requests, waited, pathLog,
          calc, lpc, now, fs, pack, cycle, idx, backoff, snapshot_path, iter, faults,
          posts, fails, served, sleep_sec, cache, reply>>

live == <<lpc, now, fs, pack, cycle, idx, backoff, snapshot_path, iter, faults,
          posts, fails, served, sleep_sec>>
server == <<cache, reply>>
aside == <<calc, live, server>>

detail == <<resp, key_cycle, cpc, pi, retry, usedKey, calls, lastResp, seen,
            requests, waited, pathLog, aside>>

durable == <<disk, art>>
locals == <<si, ii, di, ci, state, tries, rows, wi>>
history == <<events, fetchedOk, fetchSeq, visited, skipped, exhausted,
             startDisk, startArt>>

cur == <<si, ii, di, ci>>

Running == pc \notin {"done", "dead", "aborted"}

\* ---------------------------------------------------------------- the client
\* _API_KEYS (environment API_KEYS): a pool of two keys.
API_KEYS == <<"key-a", "key-b">>
NumKeys == Len(API_KEYS)

\* Retry(total=5, backoff_factor=0.8, status_forcelist=[429, 500, ...]) mounted on
\* the session: a request answered with a status of the list, or not answered in
\* time, is re-issued up to RETRY_TOTAL times; raise_on_status=False hands the
\* last response back to _get.  Times are in milliseconds.
RETRY_TOTAL == 5
BACKOFF_FACTOR_MS == 800
status_forcelist == {"429", "500"}

\* EP_DELAY_MS of the categories of ENDPOINTS, in milliseconds.
EP_DELAY_MS == <<600, 700>>
ERROR_DELAY_FLOOR_MS == 2000

\* The paths an endpoint function tries, in declared order: get_ohlcv_history goes
\* through _get_failover with a primary and a fallback, the others call _get.
PathsOf(c) ==
    IF ENDPOINTS[c] = "ohlcv" THEN <<"/get-ohlcv-history", "/ohlcv-history">>
    ELSE <<"/open-interest-history">>
MaxPaths == 2

\* What the upstream may answer to one request: a status, or no answer within the
\* timeout; a 429 may carry a Retry-After header (in seconds, 0: no header).
Response(st, ra) == [status |-> st, retryAfter |-> ra]
NoResponse == Response("none", 0)
Responses ==
    {Response(st, 0) : st \in {"200", "401", "403", "404", "429", "500", "timeout"}}
        \cup {Response("429", 5)}

\* Variant: the jitter is up to the whole interval.
jitter_sleep_ms_wide(ms) == {ms, ms + ms \div 2, ms + ms}

\* Lines 52-55 of historical_export.py: ms/1000 + uniform(0, 0.3 * ms/1000); the
\* two ends and the middle of the interval, in ms.
jitter_sleep_ms(ms) == {ms, ms + (15 * ms) \div 100, ms + (30 * ms) \div 100}

Max(a, b) == IF a >= b THEN a ELSE b
Pow2(n) == IF n <= 0 THEN 1 ELSE 2 ^ n

\* The adapter's sleep before re-issue number k of a request: the Retry-After of a
\* 429 that carries one, else backoff_factor * 2^(k-1), none before the first.
AdapterSleep(r, k) ==
    IF r.status = "429" /\ r.retryAfter > 0 THEN r.retryAfter * 1000
    ELSE IF k <= 1 THEN 0
    ELSE BACKOFF_FACTOR_MS * Pow2(k - 1)

\* The adapter re-issues on a status of status_forcelist and on a timeout.
Retriable(r) == r.status \in status_forcelist \/ r.status = "timeout"

\* Variant: the cursor is not advanced.
NextKeyStuck(k) == k

\* Line 34: next(_key_cycle) over itertools.cycle(_API_KEYS).
NextKey(k) == (k % NumKeys) + 1

\* Variant: any HTTP error on a path moves on to the next path.
TryNextPathAnyError(r) == r.status # "200"

\* Line 55: only a 404 moves on to the next path.
TryNextPath(r) == r.status = "404"

NoPathLog == [p \in 1..MaxPaths |-> [calls |-> 0, reqs |-> 0, last |-> "none"]]

\* Line 20 of src/coinalyze_loop.py: SLEEP_SECONDS, in seconds.
SLEEP_SEC == 60

NoCalc == [fn |-> "none"]
NoPack == [interval |-> "none", fetched_at |-> 0]
NoPath == <<>>
EmptyFs == [entries |-> {}, files |-> {}]
NoPosts == [called |-> FALSE, outs |-> <<>>, tried |-> <<>>, success |-> FALSE, errors |-> 0]
NoReply == [handler |-> "none"]

\* Line 27 of coinalyze_api_server.py: _cache = {}, and no request made.
ServerInit ==
    /\ cache = {}
    /\ reply = NoReply

\* The live loop before main_loop is entered, and no pure function applied.
AsideInit ==
    /\ calc = NoCalc
    /\ lpc = "idle"
    /\ now = 0
    /\ fs = EmptyFs
    /\ pack = NoPack
    /\ cycle = 0
    /\ idx = 0
    /\ backoff = SLEEP_SEC
    /\ snapshot_path = NoPath
    /\ iter = 0
    /\ faults = 0
    /\ posts = NoPosts
    /\ fails = 0
    /\ served = <<>>
    /\ sleep_sec = SLEEP_SEC
    /\ ServerInit

\* The client when the module has been imported and no endpoint call is running.
ClientInit ==
    /\ resp = List(<<>>)
    /\ key_cycle = 1
    /\ cpc = "idle"
    /\ pi = 0
    /\ retry = 0
    /\ usedKey = 0
    /\ calls = 0
    /\ lastResp = NoResponse
    /\ seen = {}
    /\ requests = 0
    /\ waited = 0
    /\ pathLog = NoPathLog

\* The export when historical_export.py has been imported and main not yet called.
ExportInit ==
    /\ disk = [p \in Pairs |-> NoFile]
    /\ art = [u \in Units |-> NoArtifact]
    /\ pc = "start"
    /\ si = 1 /\ ii = 1 /\ di = START_DATE /\ ci = 1
    /\ state = EmptyState
    /\ tries = 0
    /\ rows = List(<<>>)
    /\ wi = 0
    /\ shutdown = FALSE
    /\ run = 1
    /\ events = 0
    /\ fetchedOk = {}
    /\ fetchSeq = <<>>
    /\ visited = <<>>
    /\ skipped = {}
    /\ exhausted = {}
    /\ startDisk = disk
    /\ startArt = art
    /\ ClientInit

Init == ExportInit /\ AsideInit

\* ---------------------------------------------------------------- main()
\* Lines 157-168: parse the range, print the banner, enter the symbol loop.
Start ==
    /\ pc = "start"
    /\ pc' = "pair"
    /\ si' = 1 /\ ii' = 1
    /\ UNCHANGED <<durable, di, ci, state, tries, rows, wi, shutdown, run, history>>
    /\ UNCHANGED detail

\* Lines 168-172: head of `for symbol` / `for interval`.  An exhausted interval loop
\* moves to the next symbol; `if shutdown: break` leaves the interval loop of this
\* symbol only; otherwise the pair's state file is loaded.
PairHead ==
    /\ pc = "pair"
    /\ IF si > NumSymbols
       THEN /\ pc' = "done"
            /\ UNCHANGED <<si, ii, di, state>>
       ELSE IF ii > NumIntervals \/ shutdown
       THEN /\ si' = si + 1 /\ ii' = 1
            /\ UNCHANGED <<pc, di, state>>
       ELSE /\ state' = load_state(disk[state_path(si, ii)])
            /\ di' = START_DATE
            /\ pc' = "day"
            /\ UNCHANGED <<si, ii>>
    /\ UNCHANGED <<durable, ci, tries, rows, wi, shutdown, run, history>>
    /\ UNCHANGED detail

\* Lines 73-79 and 176-178: day_range_utc yields while cur <= end and not shutdown;
\* `if shutdown: break`; else export_day starts with the first category.
\* Variant: the end day is excluded (cur < end).
DayInRangeExclusive(d) == d < END_DATE

\* Line 77: cur <= end.
DayInRange(d) == d <= END_DATE

DayHead ==
    /\ pc = "day"
    /\ IF ~DayInRange(di) \/ shutdown
       THEN /\ pc' = "pair"
            /\ ii' = ii + 1
            /\ UNCHANGED ci
       ELSE /\ pc' = "unit"
            /\ ci' = 1
            /\ UNCHANGED ii
    /\ UNCHANGED <<durable, si, di, state, tries, rows, wi, shutdown, run, history>>
    /\ UNCHANGED detail

\* ---------------------------------------------------------------- export_day()
\* Variant: the comparison with "ok" inverted and `or` written as `and`.
ShouldSkipInverted(u) == art[u].exists /\ state[done_key(u)] # "ok"

\* Variant: only the completion record is consulted.
ShouldSkipRecordOnly(u) == state[done_key(u)] = "ok"

\* Variant: any recorded status, 'error:<reason>' included, counts as done.
ShouldSkipTerminal(u) == art[u].exists \/ state[done_key(u)] # "absent"

\* Line 124: out_path.exists() or state.get(done_key) == "ok".
ShouldSkip(u) == art[u].exists \/ state[done_key(u)] = "ok"

\* Lines 120-128: head of `for key, fn in ENDPOINTS.items()`.
UnitHead ==
    /\ pc = "unit"
    /\ IF ci > NumCats \/ shutdown
       THEN \* export_day returns (loop over, or `if shutdown: break`)
            /\ pc' = "day"
            /\ di' = di + 1
            /\ UNCHANGED <<ci, visited, skipped>>
       ELSE IF ShouldSkip(cur)
       THEN /\ visited' = Append(visited, cur)
            /\ skipped' = skipped \cup {cur}
            /\ ci' = ci + 1
            /\ UNCHANGED <<pc, di>>
       ELSE /\ visited' = Append(visited, cur)
            /\ pc' = "pace"
            /\ UNCHANGED <<ci, di, skipped>>
    /\ UNCHANGED <<durable, si, ii, state, tries, rows, wi, shutdown, run,
                   events, fetchedOk, fetchSeq, exhausted, startDisk, startArt>>
    /\ UNCHANGED detail

\* Lines 131-133: the pacing sleep returns; tries = 0.
Pace ==
    /\ pc = "pace"
    /\ tries' = 0
    /\ pc' = "loop"
    /\ UNCHANGED <<durable, si, ii, di, ci, state, rows, wi, shutdown, run, history>>
    /\ UNCHANGED detail

\* Variant: `while True`.
RetryLoopStopsNever == FALSE

\* Line 134: the retry loop polls the flag before every attempt.
RetryLoopStops == shutdown

\* Lines 134-135: `while not shutdown: tries += 1`.
LoopHead ==
    /\ pc = "loop"
    /\ IF RetryLoopStops
       THEN pc' = "flush" /\ UNCHANGED tries
       ELSE pc' = "fetch" /\ tries' = tries + 1
    /\ UNCHANGED <<durable, si, ii, di, ci, state, rows, wi, shutdown, run, history>>
    /\ UNCHANGED detail

\* Variant: the run ends at the first unit that uses up its retries.
ExhaustedNextHalt == "done"

\* Line 149: `break` after recording the error; control goes to line 154.
ExhaustedNext == "flush"

\* Line 147: tries >= MAX_RETRIES.
RetriesExhausted(t) == t >= MAX_RETRIES

\* Lines 145-151: `except Exception as e`.
Except(e) ==
    IF RetriesExhausted(tries)
    THEN /\ state' = [state EXCEPT ![done_key(cur)] = ErrorStatus(e)]
         /\ exhausted' = exhausted \cup {cur}
         /\ pc' = ExhaustedNext
    ELSE /\ pc' = "backoff"
         /\ UNCHANGED <<state, exhausted>>

NoteFetch == IF \E j \in 1..Len(fetchSeq) : fetchSeq[j] = cur
             THEN fetchSeq ELSE Append(fetchSeq, cur)

\* Lines 140-141: fn(symbol, interval, t0, t1) returns; rows = unwrap_history(resp).
FetchOk ==
    /\ pc = "fetch"
    /\ rows' = unwrap_history(UpstreamData(cur))
    /\ fetchedOk' = fetchedOk \cup {cur}
    /\ fetchSeq' = NoteFetch
    /\ pc' = "open"
    /\ UNCHANGED <<durable, si, ii, di, ci, state, tries, wi, shutdown, run,
                   events, visited, skipped, exhausted, startDisk, startArt>>
    /\ UNCHANGED detail

\* Line 140: fn raises (HTTP error status or timeout).
FetchRaises ==
    /\ pc = "fetch"
    /\ \E e \in UpstreamErrors : Except(e)
    /\ fetchSeq' = NoteFetch
    /\ UNCHANGED <<durable, si, ii, di, ci, tries, rows, wi, shutdown, run,
                   fetchedOk, visited, skipped, startDisk, startArt>>
    /\ UNCHANGED detail

\* A failed call, counted as an environment event.
FetchFail ==
    /\ events < MaxEvents
    /\ events' = events + 1
    /\ FetchRaises

\* A failed call, any number of times.
FetchFailAny ==
    /\ FetchRaises
    /\ UNCHANGED events

\* Line 151: the longer sleep after an error returns.
Backoff ==
    /\ pc = "backoff"
    /\ pc' = "loop"
    /\ UNCHANGED <<durable, si, ii, di, ci, state, tries, rows, wi, shutdown, run, history>>
    /\ UNCHANGED detail

\* ---------------------------------------------------------------- write_jsonl()
\* Line 83: open(path, "w") creates or truncates the artifact.
WriteOpen ==
    /\ pc = "open"
    /\ art' = [art EXCEPT ![cur] = [exists |-> TRUE, rows |-> <<>>]]
    /\ wi' = 0
    /\ pc' = "write"
    /\ UNCHANGED <<disk, si, ii, di, ci, state, tries, rows, shutdown, run, history>>
    /\ UNCHANGED detail

\* Lines 82-83: ensure_dir or open raises OSError; the artifact is untouched.
WriteOpenFail ==
    /\ pc = "open"
    /\ events < MaxEvents
    /\ events' = events + 1
    /\ Except("OSError")
    /\ UNCHANGED <<durable, si, ii, di, ci, tries, rows, wi, shutdown, run,
                   fetchedOk, fetchSeq, visited, skipped, startDisk, startArt>>
    /\ UNCHANGED detail

\* Variant: the row loop writes nothing.
RowsLeftNone(w, r) == FALSE

\* Lines 84-88: there are lines left to write.
RowsLeft(w, r) == w < Len(Lines(r))

\* Lines 85-88: one line reaches the file.
WriteRow ==
    /\ pc = "write"
    /\ RowsLeft(wi, rows)
    /\ art' = [art EXCEPT ![cur].rows = Append(@, Lines(rows)[wi + 1])]
    /\ wi' = wi + 1
    /\ UNCHANGED <<disk, pc, si, ii, di, ci, state, tries, rows, shutdown, run, history>>
    /\ UNCHANGED detail

\* Lines 85-86: a write raises OSError; the rows written so far stay in the file.
WriteRowFail ==
    /\ pc = "write"
    /\ RowsLeft(wi, rows)
    /\ events < MaxEvents
    /\ events' = events + 1
    /\ Except("OSError")
    /\ UNCHANGED <<durable, si, ii, di, ci, tries, rows, wi, shutdown, run,
                   fetchedOk, fetchSeq, visited, skipped, startDisk, startArt>>
    /\ UNCHANGED detail

\* Lines 142-144: write_jsonl returns; state[done_key] = "ok"; break.
WriteDone ==
    /\ pc = "write"
    /\ ~RowsLeft(wi, rows)
    /\ state' = [state EXCEPT ![done_key(cur)] = "ok"]
    /\ pc' = "flush"
    /\ UNCHANGED <<durable, si, ii, di, ci, tries, rows, wi, shutdown, run, history>>
    /\ UNCHANGED detail

\* ---------------------------------------------------------------- save_state()
\* Lines 154-155, 97-98: after the global gap, write_text opens the state file for
\* writing, which truncates it.
SaveOpen ==
    /\ pc = "flush"
    /\ disk' = [disk EXCEPT ![state_path(si, ii)] = TruncatedFile]
    /\ pc' = "savewrite"
    /\ UNCHANGED <<art, locals, shutdown, run, history>>
    /\ UNCHANGED detail

\* Lines 97-98: ensure_dir or the open raises OSError, which nothing catches.
SaveOpenFail ==
    /\ pc = "flush"
    /\ events < MaxEvents
    /\ events' = events + 1
    /\ pc' = "aborted"
    /\ UNCHANGED <<durable, locals, shutdown, run,
                   fetchedOk, fetchSeq, visited, skipped, exhausted, startDisk, startArt>>
    /\ UNCHANGED detail

\* Line 98: the JSON text is written and the file closed; next category.
SaveWrite ==
    /\ pc = "savewrite"
    /\ disk' = [disk EXCEPT ![state_path(si, ii)] = JsonFile(state)]
    /\ ci' = ci + 1
    /\ pc' = "unit"
    /\ UNCHANGED <<art, si, ii, di, state, tries, rows, wi, shutdown, run, history>>
    /\ UNCHANGED detail

\* Line 98: the write raises OSError, which nothing catches; the file stays empty.
SaveWriteFail ==
    /\ pc = "savewrite"
    /\ events < MaxEvents
    /\ events' = events + 1
    /\ pc' = "aborted"
    /\ UNCHANGED <<durable, locals, shutdown, run,
                   fetchedOk, fetchSeq, visited, skipped, exhausted, startDisk, startArt>>
    /\ UNCHANGED detail

\* ---------------------------------------------------------------- environment
\* Lines 44-48: SIGINT or SIGTERM sets the flag.
Signal ==
    /\ Running
    /\ ~shutdown
    /\ events < MaxEvents
    /\ events' = events + 1
    /\ shutdown' = TRUE
    /\ UNCHANGED <<durable, pc, locals, run,
                   fetchedOk, fetchSeq, visited, skipped, exhausted, startDisk, startArt>>
    /\ UNCHANGED detail

\* The process is killed (SIGKILL, power loss): memory is lost, the disk stays.
Crash ==
    /\ Running
    /\ pc' = "dead"
    /\ si' = 1 /\ ii' = 1 /\ di' = START_DATE /\ ci' = 1
    /\ state' = EmptyState
    /\ tries' = 0
    /\ rows' = List(<<>>)
    /\ wi' = 0
    /\ shutdown' = FALSE
    /\ UNCHANGED <<durable, run, history>>
    /\ UNCHANGED detail

\* The export is started again over the same symbols, intervals and range.
Restart ==
    /\ ~Running
    /\ events < MaxEvents
    /\ events' = events + 1
    /\ run' = run + 1
    /\ pc' = "start"
    /\ si' = 1 /\ ii' = 1 /\ di' = START_DATE /\ ci' = 1
    /\ state' = EmptyState
    /\ tries' = 0
    /\ rows' = List(<<>>)
    /\ wi' = 0
    /\ shutdown' = FALSE
    /\ fetchSeq' = <<>>
    /\ visited' = <<>>
    /\ skipped' = {}
    /\ exhausted' = {}
    /\ startDisk' = disk
    /\ startArt' = art
    /\ UNCHANGED <<durable, fetchedOk>>
    /\ UNCHANGED detail

\* The steps of the program when the upstream answers and the disk works.
Step ==
    \/ Start \/ PairHead \/ DayHead \/ UnitHead \/ Pace \/ LoopHead
    \/ FetchOk \/ Backoff
    \/ WriteOpen \/ WriteRow \/ WriteDone
    \/ SaveOpen \/ SaveWrite

DiskFault == WriteOpenFail \/ WriteRowFail \/ SaveOpenFail \/ SaveWriteFail

Next == Step \/ FetchFail \/ DiskFault \/ Signal \/ Crash \/ Restart

Spec == Init /\ [][Next]_vars

\* ---------------------------------------------------------------- one whole run
\* One run with no signal, no kill and a working disk, against an upstream that may
\* fail any call.  It starts on the store a previous run left after completing the
\* first n units of the range (n = 0: an empty store).
Completed(n) == {u \in Units : Rank(u) <= n}

\* The state at the start of a run over the store a previous run left after
\* completing the first n units.
StartAfter(n) ==
    /\ disk = [p \in Pairs |->
                 IF \E u \in Completed(n) : <<u[1], u[2]>> = p
                 THEN JsonFile([k \in Keys |->
                          IF <<p[1], p[2], k[1], k[2]>> \in Completed(n)
                          THEN "ok" ELSE "absent"])
                 ELSE NoFile]
    /\ art = [u \in Units |->
                 IF u \in Completed(n)
                 THEN [exists |-> TRUE, rows |-> Lines(unwrap_history(UpstreamData(u)))]
                 ELSE NoArtifact]
    /\ fetchedOk = Completed(n)
    /\ pc = "start"
    /\ si = 1 /\ ii = 1 /\ di = START_DATE /\ ci = 1
    /\ state = EmptyState
    /\ tries = 0
    /\ rows = List(<<>>)
    /\ wi = 0
    /\ shutdown = FALSE
    /\ run = 1
    /\ events = 0
    /\ fetchSeq = <<>>
    /\ visited = <<>>
    /\ skipped = {}
    /\ exhausted = {}
    /\ startDisk = disk
    /\ startArt = art
    /\ ClientInit
    /\ AsideInit

RunInit == \E n \in 0..NumUnits : StartAfter(n)

RunNext == Step \/ FetchFailAny

\* The process keeps running: every sleep returns and every HTTP call returns or
\* raises within its timeout.
RunSpec == RunInit /\ [][RunNext]_vars /\ WF_vars(RunNext)

\* The same run when a signal may arrive at any point of it.
ShutdownNext == RunNext \/ Signal
ShutdownSpec == RunInit /\ [][ShutdownNext]_vars /\ WF_vars(RunNext)

\* ---------------------------------------------------------------- one endpoint call
\* The endpoint call of line 140 of historical_export.py, request by request
\* (src/coinalyze_api.py).  These actions take the place of FetchOk and FetchFail.
program == <<durable, pc, locals, shutdown, run, history>>

\* Lines 131-133 with the sleep observed: jitter_sleep_ms(EP_DELAY_MS[key]), tries = 0.
PaceSleep ==
    /\ pc = "pace"
    /\ tries' = 0
    /\ pc' = "loop"
    /\ \E d \in jitter_sleep_ms(EP_DELAY_MS[ci]) : waited' = d
    /\ UNCHANGED aside
    /\ UNCHANGED <<resp, key_cycle, cpc, pi, retry, usedKey, calls, lastResp, seen,
                   requests, pathLog>>
    /\ UNCHANGED <<durable, si, ii, di, ci, state, rows, wi, shutdown, run, history>>

\* Line 140: fn(symbol, interval, t0, t1) is entered; the first attempt for a unit
\* starts the unit's observations afresh.
Call ==
    /\ pc = "fetch" /\ cpc = "idle"
    /\ cpc' = "get"
    /\ pi' = 1
    /\ pathLog' = NoPathLog
    /\ IF tries = 1
       THEN requests' = 0 /\ lastResp' = NoResponse /\ seen' = {}
       ELSE UNCHANGED <<requests, lastResp, seen>>
    /\ UNCHANGED aside
    /\ UNCHANGED <<resp, key_cycle, retry, usedKey, calls, waited>>
    /\ UNCHANGED program

\* Lines 42-44 and 33-39: _get(p) builds the headers, which takes the next key.
GetCall ==
    /\ pc = "fetch" /\ cpc = "get"
    /\ usedKey' = key_cycle
    /\ key_cycle' = NextKey(key_cycle)
    /\ calls' = calls + 1
    /\ retry' = 0
    /\ cpc' = "send"
    /\ pathLog' = [pathLog EXCEPT ![pi].calls = @ + 1]
    /\ UNCHANGED aside
    /\ UNCHANGED <<resp, pi, lastResp, seen, requests, waited>>
    /\ UNCHANGED program

\* One request is sent on the current path and answered with r.
Received(r) ==
    /\ lastResp' = r
    /\ seen' = seen \cup {r.status}
    /\ requests' = requests + 1
    /\ pathLog' = [pathLog EXCEPT ![pi].reqs = @ + 1, ![pi].last = r.status]

\* The adapter hands r back to _get (or raises, on a timeout): r is not retriable,
\* or the re-issues are used up.
Final(r) == ~(Retriable(r) /\ retry < RETRY_TOTAL)

\* Line 45: raise_for_status raises requests.HTTPError.
IsHTTPError(r) == r.status \notin {"200", "timeout"}

\* Lines 53-57: the error is a 404 and `continue` reaches another path.
ContinuesToNextPath(r) ==
    IsHTTPError(r) /\ TryNextPath(r) /\ pi < Len(PathsOf(ci))

\* Lines 24-31: the adapter sleeps and re-issues the request.
AdapterRetry ==
    /\ pc = "fetch" /\ cpc = "send"
    /\ \E r \in Responses :
          /\ ~Final(r)
          /\ Received(r)
          /\ waited' = AdapterSleep(r, retry + 1)
    /\ retry' = retry + 1
    /\ UNCHANGED aside
    /\ UNCHANGED <<resp, key_cycle, cpc, pi, usedKey, calls>>
    /\ UNCHANGED program

\* Lines 44-46 and 52, then 140-141: a 200; r.json() is returned to export_day.
GetReturns ==
    /\ pc = "fetch" /\ cpc = "send"
    /\ \E r \in Responses : r.status = "200" /\ Received(r)
    /\ waited' = 0
    /\ rows' = unwrap_history(UpstreamData(cur))
    /\ fetchedOk' = fetchedOk \cup {cur}
    /\ fetchSeq' = NoteFetch
    /\ pc' = "open"
    /\ cpc' = "idle" /\ pi' = 0 /\ retry' = 0
    /\ UNCHANGED aside
    /\ UNCHANGED <<resp, key_cycle, usedKey, calls>>
    /\ UNCHANGED <<durable, si, ii, di, ci, state, tries, wi, shutdown, run,
                   events, visited, skipped, exhausted, startDisk, startArt>>

\* Lines 53-57: a 404 on a path that is not the last; the next path is tried.
NextPath ==
    /\ pc = "fetch" /\ cpc = "send"
    /\ \E r \in Responses :
          /\ Final(r) /\ ContinuesToNextPath(r)
          /\ Received(r)
    /\ waited' = 0
    /\ pi' = pi + 1
    /\ cpc' = "get"
    /\ retry' = 0
    /\ UNCHANGED aside
    /\ UNCHANGED <<resp, key_cycle, usedKey, calls>>
    /\ UNCHANGED program

\* Lines 45 and 58-60, then 145-151: the call raises (an HTTP error status that
\* does not lead to another path, or a timeout) and export_day's except runs.
GetRaises ==
    /\ pc = "fetch" /\ cpc = "send"
    /\ \E r \in Responses :
          /\ Final(r) /\ r.status # "200" /\ ~ContinuesToNextPath(r)
          /\ Received(r)
          /\ Except(IF IsHTTPError(r) THEN "HTTPError" ELSE "Timeout")
    /\ fetchSeq' = NoteFetch
    /\ waited' = 0
    /\ cpc' = "idle" /\ pi' = 0 /\ retry' = 0
    /\ UNCHANGED aside
    /\ UNCHANGED <<resp, key_cycle, usedKey, calls>>
    /\ UNCHANGED <<durable, si, ii, di, ci, tries, rows, wi, shutdown, run,
                   events, fetchedOk, visited, skipped, startDisk, startArt>>

\* Line 151: jitter_sleep_ms(max(EP_DELAY_MS.get(key, GLOBAL_DELAY_MS), 2000)).
BackoffSleep ==
    /\ pc = "backoff"
    /\ pc' = "loop"
    /\ \E d \in jitter_sleep_ms(Max(EP_DELAY_MS[ci], ERROR_DELAY_FLOOR_MS)) :
          waited' = waited + d
    /\ UNCHANGED aside
    /\ UNCHANGED <<resp, key_cycle, cpc, pi, retry, usedKey, calls, lastResp, seen,
                   requests, pathLog>>
    /\ UNCHANGED <<durable, si, ii, di, ci, state, tries, rows, wi, shutdown, run, history>>

\* A run with a working disk, no signal and no kill, over a store in which only the
\* last day of the last pair is left, against an upstream that answers each
\* request in any way.
FetchInit == \E n \in (NumUnits - NumCats)..(NumUnits - 1) : StartAfter(n)

FetchNext ==
    \/ Start \/ PairHead \/ DayHead \/ UnitHead \/ PaceSleep \/ LoopHead
    \/ Call \/ GetCall \/ AdapterRetry \/ GetReturns \/ NextPath \/ GetRaises
    \/ BackoffSleep
    \/ WriteOpen \/ WriteRow \/ WriteDone
    \/ SaveOpen \/ SaveWrite

FetchSpec == FetchInit /\ [][FetchNext]_vars

\* The same run against an upstream that answers every request with a 200.
OkNext ==
    \/ Start \/ PairHead \/ DayHead \/ UnitHead \/ PaceSleep \/ LoopHead
    \/ Call \/ GetCall \/ GetReturns
    \/ WriteOpen \/ WriteRow \/ WriteDone
    \/ SaveOpen \/ SaveWrite

OkSpec == RunInit /\ [][OkNext]_vars

\* ---------------------------------------------------------------- unwrap_history alone
\* The numbers of the JSON inputs and the longest list.
MaxNum == 3
MaxLen == 3

RECURSIVE SeqsUpTo(_, _)
SeqsUpTo(S, n) ==
    IF n = 0 THEN {<<>>}
    ELSE LET shorter == SeqsUpTo(S, n - 1)
         IN  shorter \cup {Append(q, x) : q \in {t \in shorter : Len(t) = n - 1}, x \in S}

JsonNums == {Num(n) : n \in 0..MaxNum}
JsonDicts ==
    {Dict("nokey", <<>>), Dict("null", <<>>)}
        \cup {DictNum(n) : n \in 0..MaxNum}
        \cup {Dict("list", l) : l \in SeqsUpTo(JsonNums, MaxLen)}
JsonElems == JsonNums \cup JsonDicts
\* Lists of any first element followed by numbers: unwrap_history looks at the
\* first element only.
JsonLists ==
    {List(<<>>)} \cup
    {List(<<e>> \o l) : e \in JsonElems, l \in SeqsUpTo(JsonNums, MaxLen - 1)}
JsonInputs == JsonElems \cup JsonLists

\* Line 141 on any response: rows = unwrap_history(resp).
Unwrap ==
    /\ pc = "start"
    /\ \E r \in JsonInputs :
          /\ resp' = r
          /\ rows' = unwrap_history(r)
    /\ pc' = "unwrapped"
    /\ UNCHANGED aside
    /\ UNCHANGED <<key_cycle, cpc, pi, retry, usedKey, calls, lastResp, seen,
                   requests, waited, pathLog>>
    /\ UNCHANGED <<durable, si, ii, di, ci, state, tries, wi, shutdown, run, history>>

UnwrapSpec == Init /\ [][Unwrap]_vars

\* ---------------------------------------------------------------- observations
\* The completion record of a unit as load_state reads it from the disk.
Rec(u) == load_state(disk[PairOf(u)])[done_key(u)]
\* The same, at the start of this run.
StartRec(u) == load_state(startDisk[PairOf(u)])[done_key(u)]

Fetched == {fetchSeq[j] : j \in 1..Len(fetchSeq)}
Visited == {visited[j] : j \in 1..Len(visited)}
Payload(u) == Lines(unwrap_history(UpstreamData(u)))
InPair == pc \in {"day", "unit", "pace", "loop", "fetch", "backoff", "open", "write",
                  "flush", "savewrite"}

\* ---------------------------------------------------------------- claims
\* C1 (amended): a run, restarted or not, issues no fetch for a unit whose completion
\* record is 'ok', and its first fetch, if it makes one, is for the first unit in
\* enumerator order whose record is not 'ok' and whose artifact file does not exist.
C1_Resumption ==
    /\ \A u \in Fetched : StartRec(u) # "ok"
    /\ Len(fetchSeq) > 0 =>
         /\ StartRec(fetchSeq[1]) # "ok" /\ ~startArt[fetchSeq[1]].exists
         /\ \A v \in Units : Rank(v) < Rank(fetchSeq[1]) =>
                StartRec(v) = "ok" \/ startArt[v].exists

\* C1 witness: a restarted run made its first fetch after passing over a unit that
\* has an artifact but no 'ok' record.
C1_Witness ==
    /\ run = 2 /\ Len(fetchSeq) > 0
    /\ \E v \in Units : /\ Rank(v) < Rank(fetchSeq[1])
                        /\ StartRec(v) # "ok" /\ startArt[v].exists

\* C1 as stated: the first fetch of a run is for the first unit in enumerator order
\* whose record is not 'ok'.
C1_Original ==
    /\ \A u \in Fetched : StartRec(u) # "ok"
    /\ Len(fetchSeq) > 0 =>
         /\ StartRec(fetchSeq[1]) # "ok"
         /\ \A v \in Units : Rank(v) < Rank(fetchSeq[1]) => StartRec(v) = "ok"

\* C2: when the store holds 'ok' for every unit at the start of a run, the run calls
\* no endpoint and leaves the store and every artifact as they were.
C2_Idempotence ==
    (\A u \in Units : StartRec(u) = "ok") =>
        fetchSeq = <<>> /\ disk = startDisk /\ art = startArt

\* C2 witness: a run over a fully 'ok' store has visited every unit and finished.
C2_Witness ==
    /\ pc = "done" /\ run = 2 /\ Len(visited) = NumUnits
    /\ \A u \in Units : StartRec(u) = "ok"

\* C3 as stated: no endpoint call returns a payload for a unit for which an earlier
\* call, in this or an earlier run, already returned one.
C3_AtMostOnce == [][(pc = "fetch" /\ pc' = "open") => cur \notin fetchedOk]_vars

\* C4: a unit that used up its retries is recorded 'error:<reason>', and a run that
\* ends without a shutdown signal has visited every later unit and holds the error
\* record in the store.
C4_Containment ==
    /\ \A u \in exhausted : (InPair /\ PairOf(u) = <<si, ii>>) => IsError(state[done_key(u)])
    /\ (pc = "done" /\ ~shutdown) =>
          \A u \in exhausted :
             /\ IsError(Rec(u))
             /\ \A v \in Units : Rank(v) > Rank(u) => v \in Visited

\* C4 witness: a run ended with a unit exhausted and a later unit fetched and 'ok'.
C4_Witness ==
    /\ pc = "done"
    /\ \E u \in exhausted : \E v \in Fetched :
          Rank(v) > Rank(u) /\ Rec(v) = "ok" /\ IsError(Rec(u))

\* C5: whenever the store on disk, or the state in memory, records 'ok' for a unit,
\* the unit's artifact exists and holds the whole unwrapped payload.
C5_OkImpliesArtifact ==
    /\ \A u \in Units : Rec(u) = "ok" => art[u].exists /\ art[u].rows = Payload(u)
    /\ InPair => \A k \in Keys : state[k] = "ok" =>
           LET u == <<si, ii, k[1], k[2]>> IN art[u].exists /\ art[u].rows = Payload(u)

\* C5 witness: the process was killed with an 'ok' record on disk.
C5_Witness == pc = "dead" /\ \E u \in Units : Rec(u) = "ok" /\ Len(art[u].rows) = 2

\* C6 as stated: when the process is killed, every terminal record that the run held
\* in memory for a unit other than the one in flight is in the store on disk.
C6_CrashLosesInFlightOnly ==
    [][(InPair /\ pc' = "dead") =>
          \A k \in Keys : (k # done_key(cur) /\ IsTerminal(state[k])) =>
              load_state(disk'[<<si, ii>>])[k] = state[k]]_vars

\* C7 as stated: a record that was terminal at the start of a run is the same in
\* every state file the run finishes writing and at the start of the next run.
C7_TerminalSticky ==
    [][((pc = "savewrite" /\ pc' = "unit") \/ pc' = "start") =>
          \A u \in Units : IsTerminal(StartRec(u)) =>
              load_state(disk'[PairOf(u)])[done_key(u)] = StartRec(u)]_vars

C10_RunCompletes ==
    /\ <>(pc = "done")
    /\ [](pc = "done" =>
            \A u \in Units : u \in Visited /\ (u \in skipped \/ IsTerminal(Rec(u))))

\* C10 witness: a finished run that skipped a unit, recorded one 'ok' and one 'error:'.
C10_Witness ==
    /\ pc = "done" /\ skipped # {}
    /\ \E u, v \in Units \ skipped : Rec(u) = "ok" /\ IsError(Rec(v))

\* C11 as stated: no error raised while a unit is processed, a failure to write the
\* completion store included, leaves the scheduler; the run never ends on an
\* exception.
C11_NoErrorEscapes == pc # "aborted"

\* C12 as stated: when writing the fetched payload to the artifact raises, the unit
\* is recorded failed at once and the retry loop is left, with no further fetch.
C12_WriteFailureTerminal ==
    [][(pc \in {"open", "write"} /\ pc' \in {"backoff", "flush"} /\ events' # events) =>
          (pc' = "flush" /\ IsError(state'[done_key(cur)]))]_vars

\* C13 as stated: once a request for a unit was answered 401 or 403, no further
\* request is sent for that unit in the run and the key cursor stays where it is
\* until the next unit is fetched.
C13_AuthRejectedTerminal ==
    [][lastResp.status \in {"401", "403"} =>
          (requests' <= requests /\ key_cycle' = key_cycle)]_vars

\* Every response for the current unit so far was a 5xx or a timeout.
OnlyServerFailures == seen \subseteq {"500", "timeout"}

\* C14 as stated: while a unit meets 5xx and timeouts only, at most 8 requests are
\* sent for it in a run, the adapter's re-issues and the scheduler's attempts
\* counted together.
C14_RequestBudget == OnlyServerFailures => requests <= 8

\* The schedule of C15 in milliseconds: 5000 * 1.8^(n-1), at most 120000.
BackoffSchedule(n) ==
    LET raw == (5000 * 18 ^ (n - 1)) \div 10 ^ (n - 1)
    IN  IF raw > 120000 THEN 120000 ELSE raw

\* C15 as stated: the request that follows the n-th request of a unit, when that
\* one ended in a 5xx or a timeout, is sent after a wait of 5 s * 1.8^(n-1), at
\* most 120 s.
C15_BackoffSchedule ==
    [][(requests' = requests + 1 /\ requests > 0 /\ OnlyServerFailures) =>
          waited = BackoffSchedule(requests)]_vars

\* C16 as stated: the request that follows a 429 is sent after a wait of at least
\* max(30 s, Retry-After), with 60 s for a missing Retry-After.
C16_RateLimitFloor ==
    [][(requests' = requests + 1 /\ lastResp.status = "429") =>
          waited >= Max(30000, IF lastResp.retryAfter > 0
                               THEN lastResp.retryAfter * 1000 ELSE 60000)]_vars

\* The endpoint call of the current unit has a fallback path / has ended.
HasFallback == Len(PathsOf(ci)) = 2
CallEnded ==
    /\ cpc = "idle" /\ pathLog[1].calls > 0
    /\ \/ pc \in {"open", "backoff"}
       \/ pc = "flush" /\ IsError(state[done_key(cur)])
AtCall == (pc = "fetch" /\ cpc # "idle") \/ CallEnded

\* C17 (amended): in one endpoint call every path is called (_get) at most once and
\* in declared order, the fallback only after a 404 on the primary; each call is at
\* most 1 + RETRY_TOTAL requests; and after a 404 on the primary the fallback is
\* called exactly once and its final response decides the result of the call.
C17_Fallback ==
    /\ \A p \in 1..MaxPaths :
          /\ pathLog[p].calls <= 1
          /\ pathLog[p].reqs <= pathLog[p].calls * (1 + RETRY_TOTAL)
    /\ pathLog[2].calls = 1 => (pathLog[1].calls = 1 /\ pathLog[1].last = "404")
    /\ (CallEnded /\ HasFallback /\ pathLog[1].last = "404") =>
          /\ pathLog[2].calls = 1 /\ pathLog[2].reqs >= 1
          /\ lastResp.status = pathLog[2].last
          /\ pc = "open" <=> pathLog[2].last = "200"

\* C17 witness: after a 404 on the primary the fallback was re-issued by the adapter
\* and then answered 200.
C17_Witness ==
    /\ CallEnded /\ HasFallback /\ pc = "open"
    /\ pathLog[1].last = "404" /\ pathLog[2].reqs = 2

\* C17 as stated: after a 404 on the primary exactly one request goes to the
\* fallback path.
C17_Original ==
    (AtCall /\ HasFallback /\ pathLog[1].last = "404") =>
        /\ pathLog[2].reqs <= 1
        /\ CallEnded => pathLog[2].reqs = 1

\* C18: the k-th _get call of the process uses key ((k-1) mod n) + 1 of the pool of
\* n keys, whatever the calls before it returned or raised.
C18_RoundRobin == calls > 0 => usedKey = ((calls - 1) % NumKeys) + 1

\* C18 witness: a call after a failed one wraps around to the first key.
C18_Witness ==
    /\ calls = NumKeys + 1 /\ usedKey = 1 /\ cpc = "send"
    /\ lastResp.status \in {"401", "500"}

\* The response is a list whose first element is a dict with a "history" key.
Wrapped(r) ==
    r.t = "list" /\ Len(r.items) > 0 /\ r.items[1].t = "dict" /\ r.items[1].hist # "nokey"

\* C19 as stated: unwrap_history returns a list for every input: a bare list itself,
\* the history list of {"history": L} and of [{.., "history": L}], and [] for {},
\* [] and a null or missing history.
C19_UnwrapContract ==
    pc = "unwrapped" =>
        /\ rows.t = "list"
        /\ (resp.t = "list" /\ ~Wrapped(resp)) => rows = resp
        /\ (resp.t = "dict" /\ resp.hist = "list") => rows = List(resp.history)
        /\ (Wrapped(resp) /\ resp.items[1].hist = "list") =>
              rows = List(resp.items[1].history)
        /\ (resp.t = "dict" /\ resp.hist \in {"nokey", "null"}) => rows = List(<<>>)
        /\ (Wrapped(resp) /\ resp.items[1].hist = "null") => rows = List(<<>>)
        /\ resp = List(<<>>) => rows = List(<<>>)

\* The store and the artifacts were empty at the start of the run.
EmptyAtStart == \A u \in Units : StartRec(u) = "absent" /\ ~startArt[u].exists

\* C20: when every request is answered 200, a unit is fetched with one request, and
\* a run that started on an empty store ends with every unit 'ok' in the store, one
\* artifact per unit holding exactly the unit's records, and one _get call per unit.
C20_EndToEnd ==
    /\ pc \in {"open", "write", "flush", "savewrite"} => requests = 1
    /\ (pc = "done" /\ EmptyAtStart) =>
          /\ \A u \in Units :
                Rec(u) = "ok" /\ art[u].exists /\ art[u].rows = Payload(u)
          /\ Fetched = Units /\ Len(fetchSeq) = NumUnits
          /\ calls = NumUnits

\* C20 witness: such a run has ended, with an artifact of exactly one record.
C20_Witness ==
    /\ pc = "done" /\ EmptyAtStart /\ calls = NumUnits
    /\ \E u \in Units : Len(Payload(u)) = 1 /\ Len(art[u].rows) = 1

(***************************************************************************)
(* The UTC day window of export_day, lines 116-118, over the days that     *)
(* day_range_utc yields, lines 73-79.  A datetime is a UTC calendar day    *)
(* (days since the epoch) and the seconds into that day.                   *)
(***************************************************************************)
MaxDay == 3
DAY_SEC == 86400
Clock == {0, 1, 43200, DAY_SEC - 1}
DateTimes == [day : 0..MaxDay, sec : Clock]

\* dt.replace(hour=0, minute=0, second=0)
replace_midnight(dt) == [dt EXCEPT !.sec = 0]
\* dt + timedelta(days=n)
plus_days(dt, n) == [dt EXCEPT !.day = @ + n]
\* Lines 57-60: int(dt.timestamp()) of a UTC datetime.
unix_utc(dt) == dt.day * DAY_SEC + dt.sec

\* Line 117: t0.
window_start(day_utc) == unix_utc(replace_midnight(day_utc))

\* Variant: the end is the next midnight itself.
window_end_next_midnight(day_utc) == unix_utc(replace_midnight(plus_days(day_utc, 1)))

\* Line 118: t1.
window_end(day_utc) == unix_utc(replace_midnight(plus_days(day_utc, 1))) - 1

NoWindow == [t0 |-> 0, t1 |-> -1]

\* Lines 158-159 and 74-75: main parses the range, day_range_utc cuts both ends
\* to midnight.
RangeParsed ==
    /\ calc = NoCalc
    /\ \E start, end \in DateTimes :
          calc' = [fn |-> "window", start_dt |-> start, end_dt |-> end,
                   cur |-> replace_midnight(start),
                   end |-> replace_midnight(end), n |-> 0,
                   day |-> 0, win |-> NoWindow, prev |-> NoWindow]
    /\ UNCHANGED <<durable, pc, locals, shutdown, run, history>>
    /\ UNCHANGED <<resp, key_cycle, cpc, pi, retry, usedKey, calls, lastResp, seen,
                   requests, waited, pathLog, live, server>>

\* Lines 77-79 and 116-118: the next day of the range and its window.
DayWindow ==
    /\ calc.fn = "window"
    /\ unix_utc(calc.cur) <= unix_utc(calc.end)
    /\ calc' = [calc EXCEPT !.n = @ + 1,
                            !.day = calc.cur.day,
                            !.win = [t0 |-> window_start(calc.cur),
                                     t1 |-> window_end(calc.cur)],
                            !.prev = calc.win,
                            !.cur = plus_days(calc.cur, 1)]
    /\ UNCHANGED <<durable, pc, locals, shutdown, run, history>>
    /\ UNCHANGED <<resp, key_cycle, cpc, pi, retry, usedKey, calls, lastResp, seen,
                   requests, waited, pathLog, live, server>>

WindowNext == RangeParsed \/ DayWindow
WindowSpec == Init /\ [][WindowNext]_vars

(***************************************************************************)
(* The names of a work unit in the store and on disk, lines 112-123, 155   *)
(* and 171, as the strings the code builds.                                *)
(***************************************************************************)
SymbolNames == {"BTCUSDT_PERP.A", "BTCUSDT"}
IntervalNames == {"1min", "5min"}
DayNames == {"2023-01-01", "2023-01-02"}
KeyNames == {"ohlcv", "oi"}
NamedUnits == SymbolNames \X IntervalNames \X DayNames \X KeyNames

\* Variant: the interval is left out of the file name.
state_file_no_interval(symbol, interval) == "_state/" \o symbol \o ".json"

\* Lines 155 and 171: OUT_ROOT / "_state" / f"{symbol}_{interval}.json"
state_file(symbol, interval) == "_state/" \o symbol \o "_" \o interval \o ".json"
\* Line 123: f"{day_str}:{key}"
done_key_str(day_str, key) == day_str \o ":" \o key
\* Lines 113 and 122: OUT_ROOT / symbol / interval / day_str / f"{key}.jsonl"
out_path(symbol, interval, day_str, key) ==
    symbol \o "/" \o interval \o "/" \o day_str \o "/" \o key \o ".jsonl"

NamesOf(u) == [file |-> state_file(u[1], u[2]),
               key  |-> done_key_str(u[3], u[4]),
               path |-> out_path(u[1], u[2], u[3], u[4])]

\* The names the code builds for two units.
NameUnits ==
    /\ calc = NoCalc
    /\ \E a, b \in NamedUnits :
          calc' = [fn |-> "names", a |-> a, b |-> b,
                   na |-> NamesOf(a), nb |-> NamesOf(b)]
    /\ UNCHANGED <<durable, pc, locals, shutdown, run, history>>
    /\ UNCHANGED <<resp, key_cycle, cpc, pi, retry, usedKey, calls, lastResp, seen,
                   requests, waited, pathLog, live, server>>

NamesSpec == Init /\ [][NameUnits]_vars

(***************************************************************************)
(* The live loop, src/coinalyze_loop.py lines 141-198, and its sink,       *)
(* src/data_sink.py, for one symbol.  An entry of fs is a name under       *)
(* DATA_DIR/<symbol>/<interval>; a file of fs is a path                    *)
(* <<interval, directory name, file name>> with the lines it holds.        *)
(***************************************************************************)
MaxIter == 3
MaxFaults == 1
\* Line 17 of coinalyze_loop.py, the first two of the default intervals.
LOOP_INTERVALS == <<"1min", "5min">>
\* Line 7 of data_sink.py.
RETAIN_DAYS == 7
\* Line 187 of coinalyze_loop.py: `cycle % 60`.
CLEANUP_EVERY == 60
\* Line 195 of coinalyze_loop.py: min(backoff * 2, 600).
BACKOFF_CAP == 600
\* The UTC day, in days since the epoch, on which the loop is observed.
Today == 20

DayName(d) == [kind |-> "ymd", day |-> d]
OtherName == [kind |-> "other", day |-> 0]
SnapshotName(at) == [k |-> "json", at |-> at]
TmpName == [k |-> "tmp", at |-> 0]
GzName == [k |-> "gz", at |-> 0]

Entry(interval, name, isdir) == [interval |-> interval, name |-> name, isdir |-> isdir]
File(path, data) == [path |-> path, data |-> data]

Exists(f, path) == \E x \in f.files : x.path = path
Read(f, path) ==
    IF Exists(f, path) THEN (CHOOSE x \in f.files : x.path = path).data ELSE <<>>
\* open(path, "w") and a complete write: the file holds `data` and nothing else.
Write(f, path, data) ==
    [f EXCEPT !.files = {x \in @ : x.path # path} \cup {File(path, data)}]
Remove(f, path) == [f EXCEPT !.files = {x \in @ : x.path # path}]

\* Line 14: time.strftime("%Y%m%d", time.gmtime(t)).
strftime_gmtime(t) == DayName(t \div DAY_SEC)

\* Variant: the directory is always that of the current day.
day_dir_time_now(ts, clock) == clock

\* Line 13: t = ts or _ts().
day_dir_time(ts, clock) == IF ts # 0 THEN ts ELSE clock

\* Lines 12-17: _day_dir, the directory it returns and the file system it leaves
\* (mkdir(parents=True, exist_ok=True)).
day_dir(interval, ts, clock) == <<interval, strftime_gmtime(day_dir_time(ts, clock))>>
mkdir(f, dir) == [f EXCEPT !.entries = @ \cup {Entry(dir[1], dir[2], TRUE)}]

\* Lines 19-26: write_snapshot, the path it returns and the file system it leaves.
snapshot_file(interval, p, clock) ==
    day_dir(interval, p.fetched_at, clock) \o <<SnapshotName(p.fetched_at)>>
write_snapshot(f, interval, p, clock) ==
    Write(mkdir(f, day_dir(interval, p.fetched_at, clock)),
          snapshot_file(interval, p, clock), <<p>>)

\* Lines 28-45 with GZIP_JSONL: the two files of append_jsonl.
tmp_file(interval, p, clock) == day_dir(interval, p.fetched_at, clock) \o <<TmpName>>
gz_file(interval, p, clock) == day_dir(interval, p.fetched_at, clock) \o <<GzName>>

\* Variant: the end of the named day.
mktime_strptime_day_end(name) == (name.day + 1) * DAY_SEC

\* Line 61: time.mktime(time.strptime(day_dir.name, "%Y%m%d")), in a process whose
\* local time is UTC.
mktime_strptime(name) == name.day * DAY_SEC

\* Lines 47-65: retention_cleanup.  A name that does not parse is passed over, and
\* rmtree(ignore_errors=True) of an entry that is not a directory removes nothing.
Parses(name) == name.kind = "ymd"
Expired(f, clock) ==
    {e \in f.entries :
        /\ Parses(e.name)
        /\ mktime_strptime(e.name) < clock - RETAIN_DAYS * DAY_SEC
        /\ e.isdir}
retention_cleanup(f, clock) ==
    [entries |-> f.entries \ Expired(f, clock),
     files   |-> {x \in f.files :
                    \A e \in Expired(f, clock) :
                       <<x.path[1], x.path[2]>> # <<e.interval, e.name>>}]

\* Lines 23-24 of coinalyze_loop.py: sec + uniform(0, 0.3 * sec), its two ends.
sleep_with_jitter(sec) == {sec, sec + (30 * sec) \div 100}

Min(a, b) == IF a < b THEN a ELSE b

\* What earlier days left under DATA_DIR/<symbol>/1min: the partitions of the days
\* 8, 7 and 6 days back with their snapshots and streams, a directory that is not named after a
\* day, and a plain file named after an old day.
OldPack(d) == [interval |-> LOOP_INTERVALS[1], fetched_at |-> d * DAY_SEC + 100]
OldFs ==
    [entries |-> {Entry(LOOP_INTERVALS[1], DayName(Today - k), TRUE) : k \in 6..8}
                 \cup {Entry(LOOP_INTERVALS[1], OtherName, TRUE),
                       Entry(LOOP_INTERVALS[1], DayName(Today - 9), FALSE)},
     files |-> {File(<<LOOP_INTERVALS[1], DayName(Today - k), GzName>>,
                     <<OldPack(Today - k)>>) : k \in 6..8}
               \cup {File(<<LOOP_INTERVALS[1], DayName(Today - k),
                              SnapshotName(OldPack(Today - k).fetched_at)>>,
                            <<OldPack(Today - k)>>) : k \in 6..8}
               \cup {File(<<LOOP_INTERVALS[1], OtherName, GzName>>, <<>>)}]

\* SLEEP_SECONDS of the environment: the default, or a quarter of an hour.
SleepSettings == {SLEEP_SEC, 15 * SLEEP_SEC}

\* The loop is observed from early in the day or from shortly before midnight.
StartTimes == {Today * DAY_SEC + 100, (Today + 1) * DAY_SEC - 70}

\* main_loop at the head of `while not shutdown`, after 0 or 58 cycles.
LiveInit ==
    /\ ExportInit
    /\ calc = NoCalc
    /\ lpc = "head"
    /\ now \in StartTimes
    /\ fs = OldFs
    /\ pack = NoPack
    /\ cycle \in {0, CLEANUP_EVERY - 2}
    /\ idx = cycle
    /\ sleep_sec \in SleepSettings
    /\ backoff = sleep_sec
    /\ snapshot_path = NoPath
    /\ iter = 0
    /\ faults = 0
    /\ posts = NoPosts
    /\ fails = 0
    /\ served = <<>>
    /\ ServerInit

export == <<durable, pc, locals, shutdown, run, history,
            resp, key_cycle, cpc, pi, retry, usedKey, calls, lastResp, seen,
            requests, waited, pathLog, calc, server>>

\* Line 148: the next iteration of the loop begins.
LHead ==
    /\ lpc = "head"
    /\ iter < MaxIter
    /\ iter' = iter + 1
    /\ lpc' = "fetch"
    /\ posts' = NoPosts
    /\ UNCHANGED <<now, fs, pack, cycle, idx, backoff, snapshot_path, faults>>
    /\ UNCHANGED <<fails, served, sleep_sec>>
    /\ UNCHANGED export

\* Variant: ROTATE_INTERVALS is off, every cycle takes the first interval.
interval_of_first(i) == LOOP_INTERVALS[1]

\* Line 151 with ROTATE_TF: INTERVALS[idx % len(INTERVALS)].
interval_of(i) == LOOP_INTERVALS[(i % Len(LOOP_INTERVALS)) + 1]

\* Lines 151-152 and 106, 136: the interval of this cycle and its pack, stamped
\* with the time the fetch began.  Every client call of the block has returned.
LFetch ==
    /\ lpc = "fetch"
    /\ pack' = [interval |-> interval_of(idx), fetched_at |-> now]
    /\ lpc' = "snapshot"
    /\ UNCHANGED <<now, fs, cycle, idx, backoff, snapshot_path, iter, faults>>
    /\ UNCHANGED <<posts, fails, served, sleep_sec>>
    /\ UNCHANGED export

\* Line 152: a client call raises.
LFetchFail ==
    /\ lpc = "fetch"
    /\ faults < MaxFaults
    /\ faults' = faults + 1
    /\ lpc' = "except"
    /\ UNCHANGED <<now, fs, pack, cycle, idx, backoff, snapshot_path, iter>>
    /\ UNCHANGED <<posts, fails, served, sleep_sec>>
    /\ UNCHANGED export

\* Line 155: write_snapshot.
LSnapshot ==
    /\ lpc = "snapshot"
    /\ fs' = write_snapshot(fs, pack.interval, pack, now)
    /\ snapshot_path' = snapshot_file(pack.interval, pack, now)
    /\ lpc' = "tmp"
    /\ UNCHANGED <<now, pack, cycle, idx, backoff, iter, faults>>
    /\ UNCHANGED <<posts, fails, served, sleep_sec>>
    /\ UNCHANGED export

\* Lines 29-37 of data_sink.py: the line is appended to stream.jsonl.tmp.
LAppendTmp ==
    /\ lpc = "tmp"
    /\ LET t == tmp_file(pack.interval, pack, now)
       IN  fs' = Write(mkdir(fs, day_dir(pack.interval, pack.fetched_at, now)),
                       t, Read(fs, t) \o <<pack>>)
    /\ lpc' = "copy"
    /\ UNCHANGED <<now, pack, cycle, idx, backoff, snapshot_path, iter, faults>>
    /\ UNCHANGED <<posts, fails, served, sleep_sec>>
    /\ UNCHANGED export

\* Lines 38-39: the whole of the tmp file is appended to stream.jsonl.gz.
LCopy ==
    /\ lpc = "copy"
    /\ LET t == tmp_file(pack.interval, pack, now)
           g == gz_file(pack.interval, pack, now)
       IN  fs' = Write(fs, g, Read(fs, g) \o Read(fs, t))
    /\ lpc' = "remove"
    /\ UNCHANGED <<now, pack, cycle, idx, backoff, snapshot_path, iter, faults>>
    /\ UNCHANGED <<posts, fails, served, sleep_sec>>
    /\ UNCHANGED export

\* Lines 38-39: gzip.open, the copy or the close raises OSError, before anything
\* has reached the gz file or after all of it has.
LCopyFail ==
    /\ lpc = "copy"
    /\ faults < MaxFaults
    /\ faults' = faults + 1
    /\ LET t == tmp_file(pack.interval, pack, now)
           g == gz_file(pack.interval, pack, now)
       IN  fs' \in {fs, Write(fs, g, Read(fs, g) \o Read(fs, t))}
    /\ lpc' = "except"
    /\ UNCHANGED <<now, pack, cycle, idx, backoff, snapshot_path, iter>>
    /\ UNCHANGED <<posts, fails, served, sleep_sec>>
    /\ UNCHANGED export

\* Line 40: os.remove(tmp).
LRemove ==
    /\ lpc = "remove"
    /\ fs' = Remove(fs, tmp_file(pack.interval, pack, now))
    /\ lpc' = "summary"
    /\ UNCHANGED <<now, pack, cycle, idx, backoff, snapshot_path, iter, faults>>
    /\ UNCHANGED <<posts, fails, served, sleep_sec>>
    /\ UNCHANGED export

\* Variant: the cleanup runs after every cycle.
CleanupDueAlways(c) == TRUE

\* Line 187: `cycle % 60 == 0`.
CleanupDue(c) == c % CLEANUP_EVERY = 0

\* Line 5 of discord_poster.py: the webhooks of WEBHOOK_URL, two of them.
WEBHOOKS == <<"hook1", "hook2">>
PostOutcomes == [1..Len(WEBHOOKS) -> {"ok", "error"}]

\* Variant: the first failed post ends the loop over the webhooks.
NextHookBreaks(i, out) == IF out = "error" THEN Len(WEBHOOKS) + 1 ELSE i + 1

\* Lines 21-26 of discord_poster.py: the except clause prints and the for loop
\* goes on with the next url.
NextHook(i, out) == i + 1

\* Lines 7-27 of discord_poster.py: post_summary, given what each webhook answers.
RECURSIVE post_loop(_, _, _)
post_loop(outs, i, acc) ==
    IF i > Len(WEBHOOKS) THEN acc
    ELSE post_loop(outs, NextHook(i, outs[i]),
                   [called  |-> TRUE,
                    outs    |-> outs,
                    tried   |-> Append(acc.tried, i),
                    success |-> acc.success \/ outs[i] = "ok",
                    errors  |-> acc.errors + (IF outs[i] = "error" THEN 1 ELSE 0)])
post_summary(outs) ==
    post_loop(outs, 1, [NoPosts EXCEPT !.called = TRUE, !.outs = outs])

\* Lines 158-183: the summary is printed and the Discord post tried.  build_embed
\* may raise before post_summary is called; line 182 catches it.
LPost ==
    /\ lpc = "summary"
    /\ \E embed_ok \in BOOLEAN, outs \in PostOutcomes :
          posts' = IF embed_ok THEN post_summary(outs)
                   ELSE [NoPosts EXCEPT !.errors = 1]
    /\ lpc' = "count"
    /\ UNCHANGED <<now, fs, pack, cycle, idx, backoff, snapshot_path, iter, faults>>
    /\ UNCHANGED <<fails, served, sleep_sec>>
    /\ UNCHANGED export

\* Lines 186-187: the cycle is counted.
LCount ==
    /\ lpc = "count"
    /\ cycle' = cycle + 1
    /\ lpc' = IF CleanupDue(cycle + 1) THEN "cleanup" ELSE "advance"
    /\ UNCHANGED <<now, fs, pack, idx, backoff, snapshot_path, iter, faults>>
    /\ UNCHANGED <<posts, fails, served, sleep_sec>>
    /\ UNCHANGED export

\* Line 169: the summary raises (len of a history that is not sized), after
\* the pack has been persisted.
LSummaryFail ==
    /\ lpc = "summary"
    /\ faults < MaxFaults
    /\ faults' = faults + 1
    /\ lpc' = "except"
    /\ UNCHANGED <<now, fs, pack, cycle, idx, backoff, snapshot_path, iter>>
    /\ UNCHANGED <<posts, fails, served, sleep_sec>>
    /\ UNCHANGED export

\* Line 188: retention_cleanup().
LCleanup ==
    /\ lpc = "cleanup"
    /\ fs' = retention_cleanup(fs, now)
    /\ lpc' = "advance"
    /\ UNCHANGED <<now, pack, cycle, idx, backoff, snapshot_path, iter, faults>>
    /\ UNCHANGED <<posts, fails, served, sleep_sec>>
    /\ UNCHANGED export

\* Lines 190-191 and 198: backoff is reset, idx advances, the loop sleeps.
LAdvance ==
    /\ lpc = "advance"
    /\ backoff' = sleep_sec
    /\ idx' = idx + 1
    /\ \E d \in sleep_with_jitter(sleep_sec) : now' = now + d
    /\ lpc' = "head"
    /\ fails' = 0
    /\ served' = Append(served, pack.interval)
    /\ UNCHANGED <<fs, pack, cycle, snapshot_path, iter, faults>>
    /\ UNCHANGED <<posts, sleep_sec>>
    /\ UNCHANGED export

\* Variant: the backoff doubles without a cap.
next_backoff_uncapped(b) == b * 2

\* Line 195: min(backoff * 2, 600).
next_backoff(b) == Min(b * 2, BACKOFF_CAP)

\* Lines 192-196: the handler sleeps `backoff`, doubles it and continues.
LExcept ==
    /\ lpc = "except"
    /\ \E d \in sleep_with_jitter(backoff) : now' = now + d
    /\ backoff' = next_backoff(backoff)
    /\ lpc' = "head"
    /\ fails' = fails + 1
    /\ UNCHANGED <<fs, pack, cycle, idx, snapshot_path, iter, faults>>
    /\ UNCHANGED <<posts, served, sleep_sec>>
    /\ UNCHANGED export

\* The process is killed while it persists a pack and is started again: memory is
\* lost, the files stay (lines 141-147).
LKill ==
    /\ lpc \in {"snapshot", "tmp", "copy", "remove", "summary", "count"}
    /\ faults < MaxFaults
    /\ faults' = faults + 1
    /\ lpc' = "head"
    /\ pack' = NoPack
    /\ cycle' = 0
    /\ idx' = 0
    /\ backoff' = sleep_sec
    /\ snapshot_path' = NoPath
    /\ posts' = NoPosts
    /\ fails' = 0
    /\ served' = <<>>
    /\ \E d \in sleep_with_jitter(sleep_sec) : now' = now + d
    /\ UNCHANGED <<fs, iter, sleep_sec>>
    /\ UNCHANGED export

LiveNext ==
    \/ LHead \/ LFetch \/ LFetchFail \/ LSnapshot \/ LAppendTmp
    \/ LCopy \/ LCopyFail \/ LRemove \/ LPost \/ LCount \/ LSummaryFail
    \/ LCleanup \/ LAdvance \/ LExcept \/ LKill

LiveSpec == LiveInit /\ [][LiveNext]_vars

\* An upstream outage: the iteration after a failed cycle begins, and the client
\* call of a cycle that follows a failed cycle raises again.
MaxFails == 5
LHeadRetry ==
    /\ lpc = "head"
    /\ fails >= 1
    /\ lpc' = "fetch"
    /\ posts' = NoPosts
    /\ UNCHANGED <<now, fs, pack, cycle, idx, backoff, snapshot_path, iter, faults>>
    /\ UNCHANGED <<fails, served, sleep_sec>>
    /\ UNCHANGED export

LFetchFailAgain ==
    /\ lpc = "fetch"
    /\ fails >= 1 /\ fails < MaxFails
    /\ lpc' = "except"
    /\ UNCHANGED <<now, fs, pack, cycle, idx, backoff, snapshot_path, iter, faults>>
    /\ UNCHANGED <<posts, fails, served, sleep_sec>>
    /\ UNCHANGED export

OutageNext == LiveNext \/ LHeadRetry \/ LFetchFailAgain
OutageSpec == LiveInit /\ [][OutageNext]_vars

\* write_snapshot alone: any pack that has been fetched is written at any later
\* time, any number of times.
FetchedPacks == [interval : {LOOP_INTERVALS[1], LOOP_INTERVALS[2]}, fetched_at : StartTimes]

SinkTimes ==
    StartTimes \cup {(Today + 1) * DAY_SEC + 8, (Today + 2) * DAY_SEC - 70}

SinkInit ==
    /\ ExportInit
    /\ calc = NoCalc
    /\ lpc = "sink"
    /\ now \in StartTimes
    /\ fs = EmptyFs
    /\ pack = NoPack
    /\ cycle = 0
    /\ idx = 0
    /\ backoff = SLEEP_SEC
    /\ snapshot_path = NoPath
    /\ iter = 0
    /\ faults = 0
    /\ posts = NoPosts
    /\ fails = 0
    /\ served = <<>>
    /\ sleep_sec = SLEEP_SEC
    /\ ServerInit

SinkWrite ==
    /\ lpc = "sink"
    /\ iter < MaxIter
    /\ iter' = iter + 1
    /\ \E p \in FetchedPacks :
          /\ p.fetched_at <= now
          /\ pack' = p
          /\ fs' = write_snapshot(fs, p.interval, p, now)
          /\ snapshot_path' = snapshot_file(p.interval, p, now)
    /\ UNCHANGED <<lpc, now, cycle, idx, backoff, faults>>
    /\ UNCHANGED <<posts, fails, served, sleep_sec>>
    /\ UNCHANGED export

\* Time passes, into the next minute or into a later day.
SinkTick ==
    /\ lpc = "sink"
    /\ \E t \in SinkTimes : t > now /\ now' = t
    /\ UNCHANGED <<lpc, fs, pack, cycle, idx, backoff, snapshot_path, iter, faults>>
    /\ UNCHANGED <<posts, fails, served, sleep_sec>>
    /\ UNCHANGED export

SinkNext == SinkWrite \/ SinkTick
SinkSpec == SinkInit /\ [][SinkNext]_vars

(***************************************************************************)
(* The read API, src/coinalyze_api_server.py: the response cache of lines  *)
(* 27-39 and the GET routes of lines 285-344.  A path is the sequence of   *)
(* its segments; a request is handled at one instant of time.time().       *)
(***************************************************************************)
MaxClock == 12
\* Line 16: CACHE_TTL_SEC, its default.
CACHE_TTL_SEC == 5

\* The routes in the order the decorators register them (lines 285, 289, 299, 311,
\* 344).  The router hands a request to the first route whose pattern matches.
ROUTES ==
    << [pattern |-> <<"healthz">>,                   handler |-> "healthz"],
       [pattern |-> <<"v1", "files">>,               handler |-> "list_files"],
       [pattern |-> <<"v1", "metrics", "{symbol}">>, handler |-> "metrics_symbol"],
       [pattern |-> <<"v1", "metrics", "all">>,      handler |-> "metrics_all"],
       [pattern |-> <<"v1", "metrics", "debug">>,    handler |-> "metrics_debug"] >>

IsParam(seg) == seg = "{symbol}"
Matches(pattern, path) ==
    /\ Len(pattern) = Len(path)
    /\ \A i \in 1..Len(path) : IsParam(pattern[i]) \/ pattern[i] = path[i]

\* The handler of the first route, in registration order, that matches the path.
Route(path) ==
    LET ms == {i \in 1..Len(ROUTES) : Matches(ROUTES[i].pattern, path)}
    IN  IF ms = {} THEN "not_found"
        ELSE ROUTES[CHOOSE i \in ms : \A j \in ms : i <= j].handler

\* The request paths sent, and the symbols that have metric files under DATA_DIR.
RequestPaths ==
    { <<"healthz">>, <<"v1", "files">>, <<"v1", "metrics", "btcusdt">>,
      <<"v1", "metrics", "all">>, <<"v1", "metrics", "debug">> }
\* Line 301: symbol.upper().
upper(sym) ==
    CASE sym = "btcusdt" -> "BTCUSDT"
      [] sym = "all"     -> "ALL"
      [] sym = "debug"   -> "DEBUG"
      [] OTHER           -> sym
StoredSymbols == {"BTCUSDT"}

\* Lines 291, 303, 313: the cache key of a handler's request.
CacheKey(handler, path) ==
    CASE handler = "list_files"     -> <<"files", "50">>
      [] handler = "metrics_symbol" -> <<"metrics", upper(path[3])>>
      [] handler = "metrics_all"    -> <<"metrics", "all">>
      [] OTHER                      -> <<"none", "none">>

None == [computed_at |-> -1]
HasEntry(c, k) == \E e \in c : e.key = k
EntryOf(c, k) == CHOOSE e \in c : e.key = k

\* Variant: an entry never expires.
cache_expired_never(t, exp) == FALSE

\* Line 33: time.time() > exp.
cache_expired(t, exp) == t > exp

\* Lines 29-36: _cache_get at time t, the cache it leaves and what it returns.
cache_get(c, k, t) ==
    IF ~HasEntry(c, k) THEN [cache |-> c, hit |-> None]
    ELSE IF cache_expired(t, EntryOf(c, k).exp)
         THEN [cache |-> {e \in c : e.key # k}, hit |-> None]
         ELSE [cache |-> c, hit |-> EntryOf(c, k).payload]

\* Lines 38-39: _cache_set at time t.
cache_set(c, k, payload, t) ==
    {e \in c : e.key # k} \cup {[key |-> k, exp |-> t + CACHE_TTL_SEC, payload |-> payload]}

Reply(path, handler, status, cached, payload, at) ==
    [path |-> path, handler |-> handler, status |-> status, cached |-> cached,
     payload |-> payload, at |-> at]

rest == <<durable, pc, locals, shutdown, run, history,
          resp, key_cycle, cpc, pi, retry, usedKey, calls, lastResp, seen,
          requests, waited, pathLog, calc,
          lpc, fs, pack, cycle, idx, backoff, snapshot_path, iter, faults,
          posts, fails, served, sleep_sec>>

\* Lines 285-342: one GET request.  list_files, metrics_symbol and metrics_all
\* return the cached payload on a hit, and compute, store and return it on a miss;
\* _pick_all_intervals_for_aliases raises 404 when the symbol has no files.
SrvGet ==
    /\ lpc = "serve"
    /\ \E path \in RequestPaths, has_data \in BOOLEAN :
          LET h == Route(path)
              k == CacheKey(h, path)
              g == cache_get(cache, k, now)
              found == CASE h = "metrics_symbol" ->
                               has_data /\ upper(path[3]) \in StoredSymbols
                         [] OTHER -> TRUE
              payload == [handler |-> h, computed_at |-> now]
          IN  IF h \notin {"list_files", "metrics_symbol", "metrics_all"}
              THEN /\ reply' = Reply(path, h, "200", FALSE, payload, now)
                   /\ cache' = cache
              ELSE IF g.hit # None
              THEN /\ reply' = Reply(path, h, "200", TRUE, g.hit, now)
                   /\ cache' = g.cache
              ELSE IF ~found
              THEN /\ reply' = Reply(path, h, "404", FALSE, None, now)
                   /\ cache' = g.cache
              ELSE /\ reply' = Reply(path, h, "200", FALSE, payload, now)
                   /\ cache' = cache_set(g.cache, k, payload, now)
    /\ UNCHANGED now
    /\ UNCHANGED rest

\* A second passes.
SrvTick ==
    /\ lpc = "serve"
    /\ now < MaxClock
    /\ now' = now + 1
    /\ UNCHANGED <<cache, reply>>
    /\ UNCHANGED rest

ServeInit ==
    /\ ExportInit
    /\ calc = NoCalc
    /\ lpc = "serve"
    /\ now = 0
    /\ fs = EmptyFs
    /\ pack = NoPack
    /\ cycle = 0
    /\ idx = 0
    /\ sleep_sec = SLEEP_SEC
    /\ backoff = SLEEP_SEC
    /\ snapshot_path = NoPath
    /\ iter = 0
    /\ faults = 0
    /\ posts = NoPosts
    /\ fails = 0
    /\ served = <<>>
    /\ ServerInit

ServerNext == SrvGet \/ SrvTick
ServerSpec == ServeInit /\ [][ServerNext]_vars

\* The unit's unwrapped payload is the empty sequence.
EmptyPayload(u) == unwrap_history(UpstreamData(u)) = List(<<>>)

\* C21: an empty unwrapped payload is a success.  Once the artifact is open, the
\* only step out of write_jsonl records 'ok' and leaves an artifact of zero lines,
\* with no retry; and a later visit of a unit recorded 'ok' with an empty payload
\* skips it.
C21_EmptyIsSuccess ==
    [][/\ (pc = "write" /\ rows = List(<<>>) /\ pc' \notin {"write", "dead"}) =>
             /\ pc' = "flush"
             /\ state'[done_key(cur)] = "ok"
             /\ art'[cur] = [exists |-> TRUE, rows |-> <<>>]
       /\ (/\ pc = "unit" /\ ci <= NumCats /\ ~shutdown /\ ~shutdown' /\ pc' # "dead"
           /\ EmptyPayload(cur) /\ state[done_key(cur)] = "ok") =>
             (pc' = "unit" /\ cur \in skipped')]_vars

\* C21 witness: a later run skipped a unit that an earlier run recorded 'ok' with
\* an artifact of zero lines.
C21_Witness ==
    /\ run = 2
    /\ \E u \in skipped :
          /\ EmptyPayload(u) /\ StartRec(u) = "ok"
          /\ art[u] = [exists |-> TRUE, rows |-> <<>>]

RecordStep == pc \in {"fetch", "open", "write"} /\ pc' = "flush"

\* With saves that complete: in one run the record of a unit is assigned in one
\* step only, which finds the record as the run found it and leaves the other
\* records alone, and a completed save_state leaves every other record of the
\* pair's store as it was before the save.
CompletedSavesKeepOthers ==
    [][/\ RecordStep =>
             /\ state[done_key(cur)] = StartRec(cur)
             /\ \A k \in Keys \ {done_key(cur)} : state'[k] = state[k]
       /\ state' # state => (RecordStep \/ pc = "pair" \/ pc' \in {"dead", "start"})
       /\ pc = "flush" =>
             \A k \in Keys \ {done_key(cur)} :
                state[k] = load_state(disk[<<si, ii>>])[k]
       /\ (pc = "savewrite" /\ pc' = "unit") =>
             \A k \in Keys \ {done_key(cur)} :
                load_state(disk'[<<si, ii>>])[k] = state[k]]_vars

\* C25: writing the record of one unit leaves the record of every other unit of
\* the pair's store unchanged and present: however save_state ends, the other
\* records are in the file as they were before it began.
C25_SaveKeepsOthers ==
    [][(pc = "savewrite" /\ pc' # "savewrite") =>
          \A k \in Keys \ {done_key(cur)} :
             load_state(disk'[<<si, ii>>])[k] = state[k]]_vars

\* C22: the window of UTC day d starts at 00:00:00 of d and ends one second before
\* 00:00:00 of d+1 (end - start = 86399), and the window of the day before ends
\* one second before it starts, so windows of distinct days never overlap.
C22_DayWindow ==
    (calc.fn = "window" /\ calc.n >= 1) =>
        /\ calc.win.t0 = calc.day * 86400
        /\ calc.win.t1 - calc.win.t0 = 86399
        /\ calc.n >= 2 => (calc.prev.t1 + 1 = calc.win.t0 /\ calc.prev.t1 < calc.win.t0)

\* C22 witness: the windows of two consecutive days have been computed.
C22_Witness ==
    /\ calc.fn = "window" /\ calc.n >= 2
    /\ calc.prev.t1 = calc.day * 86400 - 1

AttemptBegins == pc = "fetch" /\ cpc = "idle" /\ cpc' = "get"

\* C26: the pacing sleep before the first attempt of a unit lasts between the
\* category's interval and 130% of it, and every fetch attempt follows a sleep: the
\* first attempt of a unit the pacing sleep, a retry the error sleep.
C26_Paced ==
    [][/\ (pc = "pace" /\ pc' = "loop") =>
             /\ waited' >= EP_DELAY_MS[ci]
             /\ 10 * waited' <= 13 * EP_DELAY_MS[ci]
       /\ AttemptBegins =>
             IF tries = 1
             THEN waited >= EP_DELAY_MS[ci] /\ 10 * waited <= 13 * EP_DELAY_MS[ci]
             ELSE waited >= EP_DELAY_MS[ci]]_vars

\* C26 witness: a retry has begun after the error sleep, in a run that paced the
\* unit's first attempt.
C26_Witness ==
    /\ pc = "fetch" /\ cpc = "get" /\ tries = 2
    /\ waited >= ERROR_DELAY_FLOOR_MS

\* C27: once the flag is set no unit is begun and no fetch attempt is begun, the
\* error sleep is entered only from the attempt that was in flight, and the run
\* ends.
C27_Shutdown ==
    /\ [][shutdown =>
            /\ pc' = "pace" => pc = "pace"
            /\ pc' = "fetch" => pc = "fetch"
            /\ pc' = "backoff" => pc \in {"fetch", "backoff"}]_vars
    /\ shutdown ~> (pc = "done")

\* C27 witness: a run that the signal stopped has ended with units left to do.
C27_Witness ==
    /\ shutdown /\ pc = "done"
    /\ \E u \in Units : u \notin Visited /\ ~art[u].exists

\* C27 as stated: after the flag is set the run ends after the in-flight fetch and
\* the sleeps already in progress, so the process enters no sleep with the flag
\* set: neither the error sleep of line 151 nor the global gap of line 154.
C27_Original ==
    [][shutdown => (pc' \in {"backoff", "flush"} => pc' = pc)]_vars

\* C28: write_snapshot is idempotent by key: a write of the pack that the write
\* before it wrote, at any later time, returns the same path and leaves the file
\* system as it was.
C28_SnapshotIdempotent ==
    [][(iter' = iter + 1 /\ iter >= 1 /\ pack' = pack) =>
          (snapshot_path' = snapshot_path /\ fs' = fs)]_vars

\* C28 witness: a pack has been written on the day after it was fetched and
\* written, and its partition holds one snapshot file.
C28_Witness ==
    /\ lpc = "sink" /\ iter >= 2
    /\ now \div DAY_SEC > pack.fetched_at \div DAY_SEC
    /\ Cardinality({x \in fs.files : x.path[2] = strftime_gmtime(pack.fetched_at)}) = 1
    /\ Cardinality(fs.files) = 1

\* The lines of a stream file are all different.
NoDuplicates(lines) ==
    \A i, j \in 1..Len(lines) : lines[i] = lines[j] => i = j

\* C29: no pack occurs more than once in a day's stream, and the packs of a stream
\* are in the order they were fetched.
C29_AppendedOnce ==
    \A x \in fs.files :
       x.path[3] = GzName =>
          /\ NoDuplicates(x.data)
          /\ \A i, j \in 1..Len(x.data) :
                i < j => x.data[i].fetched_at <= x.data[j].fetched_at

\* The day partitions of a file system.
Partitions(f) == {e \in f.entries : e.isdir /\ e.name.kind = "ymd"}
\* The partition's day began more than RETAIN_DAYS days before `clock`.
OlderThanHorizon(e, clock) == e.name.day * 86400 < clock - RETAIN_DAYS * 86400
InPartition(x, e) == x.path[1] = e.interval /\ x.path[2] = e.name

C32_ArtifactSkips ==
    [][(/\ pc = "unit" /\ ci <= NumCats /\ ~shutdown /\ ~shutdown' /\ pc' # "dead"
        /\ art[cur].exists) =>
          /\ pc' = "unit" /\ ci' = ci + 1
          /\ cur \in skipped'
          /\ state' = state /\ disk' = disk /\ art' = art
          /\ fetchSeq' = fetchSeq /\ fetchedOk' = fetchedOk]_vars

\* C32 witness: a run has skipped a unit whose artifact exists and whose record
\* is absent or an error.
C32_Witness ==
    \E u \in skipped :
       /\ art[u].exists /\ StartRec(u) # "ok"
       /\ u \notin Fetched

\* C33: every unit a run skips because its artifact exists has an artifact that
\* holds the complete payload of a successful fetch.
C33_SkippedArtifactComplete ==
    \A u \in skipped :
       (art[u].exists /\ StartRec(u) # "ok") => art[u].rows = Payload(u)

\* C34: in one endpoint call the fallback path is tried after a 404 on the
\* primary only, any other error status or a timeout on a path ends the call at
\* once with an error, and a 404 on the last path ends it with the HTTP error of
\* that 404.
C34_OnlyNotFoundFallsBack ==
    /\ pathLog[2].calls > 0 => pathLog[1].last = "404"
    /\ (CallEnded /\ pathLog[1].last \notin {"none", "200", "404"}) =>
          /\ pathLog[2].calls = 0
          /\ pc \in {"backoff", "flush"}
          /\ lastResp.status = pathLog[1].last
    /\ (CallEnded /\ pathLog[Len(PathsOf(ci))].last = "404") =>
          /\ pc \in {"backoff", "flush"}
          /\ lastResp.status = "404"
          /\ pc = "flush" => state[done_key(cur)] = ErrorStatus("HTTPError")

\* C34 witness: both paths of a category with a fallback answered 404 and the call
\* raised; and the record of a unit is the HTTP error of a 404 on its only path.
C34_Witness ==
    /\ CallEnded /\ pc = "flush"
    /\ pathLog[Len(PathsOf(ci))].last = "404"
    /\ state[done_key(cur)] = ErrorStatus("HTTPError")

\* C35: when the retry loop is left because the flag was set after a failed
\* attempt, the unit's record is as the run found it and the next run will not
\* skip the unit.
C35_InterruptedRetriedNextRun ==
    (pc = "flush" /\ shutdown /\ tries >= 1 /\ tries < MAX_RETRIES
        /\ cur \notin exhausted /\ state[done_key(cur)] # "ok") =>
        /\ state[done_key(cur)] = StartRec(cur)
        /\ ~ShouldSkip(cur)

\* The Discord post of the current cycle printed an error.
PostFailed == posts.errors > 0
\* The pack of the current cycle has its snapshot file and its stream line.
Persisted ==
    /\ Exists(fs, snapshot_path)
    /\ \E i \in DOMAIN Read(fs, gz_file(pack.interval, pack, now)) :
          Read(fs, gz_file(pack.interval, pack, now))[i] = pack

\* C31: a failed Discord post never takes the cycle to the error handler: the
\* post step leaves the files alone, the cycle is counted, the index advances and
\* the backoff is reset with the snapshot and the stream line in place; and
\* post_summary, when called, tries every webhook in order.
C31_PostNeverFailsCycle ==
    /\ [](PostFailed => lpc \in {"count", "cleanup", "advance", "head"})
    /\ [][/\ (lpc = "summary" /\ lpc' = "count") =>
                /\ fs' = fs
                /\ posts'.called => posts'.tried = [i \in 1..Len(WEBHOOKS) |-> i]
          /\ (lpc = "count" /\ PostFailed /\ faults' = faults /\ lpc' # lpc) =>
                /\ lpc' \in {"cleanup", "advance"}
                /\ cycle' = cycle + 1
                /\ fs' = fs
          /\ (lpc = "cleanup" /\ PostFailed /\ lpc' # lpc) => lpc' = "advance"
          /\ (lpc = "advance" /\ PostFailed /\ lpc' # lpc) =>
                /\ lpc' = "head"
                /\ idx' = idx + 1
                /\ backoff' = sleep_sec
                /\ Persisted']_vars

\* C31 witness: the first webhook failed, the second was tried, and the cycle has
\* ended as a successful one.
C31_Witness ==
    /\ lpc = "head" /\ posts.called
    /\ posts.outs[1] = "error" /\ posts.tried = <<1, 2>>
    /\ served # <<>> /\ backoff = sleep_sec /\ fails = 0
    /\ Persisted

\* The error sleep after k consecutive failed cycles.
ErrorSleep(k) ==
    IF k = 0 THEN sleep_sec ELSE Min(sleep_sec * Pow2(k), BACKOFF_CAP)

\* C36: the backoff is SLEEP_SECONDS after a successful cycle and at the start,
\* and min(SLEEP_SECONDS * 2^k, 600) after k >= 1 consecutive failed cycles; the
\* error handler sleeps the backoff plus at most 30 per cent; the backoff never
\* exceeds the larger of SLEEP_SECONDS and 600.
C36_Backoff ==
    /\ [](/\ backoff = ErrorSleep(fails)
          /\ backoff <= Max(sleep_sec, BACKOFF_CAP))
    /\ [][(lpc = "except" /\ lpc' = "head") =>
             /\ now' - now >= ErrorSleep(fails)
             /\ now' - now <= ErrorSleep(fails) + (30 * ErrorSleep(fails)) \div 100
             /\ fails' = fails + 1]_vars

\* C36 witness: the fifth failed cycle in a row after a successful one, with the
\* default SLEEP_SECONDS, is about to sleep 600 seconds.
C36_Witness ==
    /\ lpc = "except" /\ fails = 4
    /\ sleep_sec = SLEEP_SEC /\ backoff = BACKOFF_CAP
    /\ served # <<>>

\* C36 as stated: the backoff is min(SLEEP_SECONDS * 2^k, 600) for every k and
\* never exceeds 600.
C36_Original ==
    /\ backoff = Min(sleep_sec * Pow2(fails), BACKOFF_CAP)
    /\ backoff <= BACKOFF_CAP

\* C37: idx advances by one at the end of a successful cycle and at no other step
\* of a running process, every cycle fetches the interval at idx modulo the number
\* of intervals, and the successful cycles visit the intervals in cyclic order.
C37_RoundRobin ==
    /\ [](\A j \in 1..(Len(served) - 1) :
             \E k \in 1..Len(LOOP_INTERVALS) :
                /\ served[j] = LOOP_INTERVALS[k]
                /\ served[j + 1] = LOOP_INTERVALS[(k % Len(LOOP_INTERVALS)) + 1])
    /\ [][/\ (idx' # idx /\ faults' = faults) =>
                /\ lpc = "advance" /\ lpc' = "head"
                /\ idx' = idx + 1
                /\ served' = Append(served, LOOP_INTERVALS[(idx % Len(LOOP_INTERVALS)) + 1])
          /\ (lpc = "except" /\ lpc' = "head") => idx' = idx
          /\ (lpc = "fetch" /\ lpc' = "snapshot") =>
                pack'.interval = LOOP_INTERVALS[(idx % Len(LOOP_INTERVALS)) + 1]]_vars

\* C37 witness: three successful cycles, with failed cycles among them, have taken
\* the first interval, the second, and the first again.
C37_Witness ==
    /\ served = <<LOOP_INTERVALS[1], LOOP_INTERVALS[2], LOOP_INTERVALS[1]>>
    /\ faults >= 1 /\ lpc = "head"

\* The packs that have a snapshot file, and the packs that have a stream line.
Snapshots(f) == {x.data[1] : x \in {y \in f.files : y.path[3].k = "json"}}
Streamed(f) ==
    UNION {{x.data[i] : i \in 1..Len(x.data)} : x \in {y \in f.files : y.path[3] = GzName}}

\* C38: between cycles the packs that have a snapshot file are the packs that
\* have a line in a stream.
C38_SnapshotIffStreamed ==
    lpc = "head" => Snapshots(fs) = Streamed(fs)

\* C39: a reply served from the cache is served no later than the expiry of its
\* entry, which is the time it was computed and set plus CACHE_TTL_SEC; a request
\* leaves no expired entry under its key; so a cached reply is at most
\* CACHE_TTL_SEC old.
C39_NeverServesExpired ==
    /\ [](/\ \A e \in cache : e.exp = e.payload.computed_at + CACHE_TTL_SEC
          /\ reply # NoReply =>
                (reply.cached =>
                    /\ reply.at - reply.payload.computed_at <= CACHE_TTL_SEC
                    /\ reply.at - reply.payload.computed_at >= 0))
    /\ [][reply' # reply =>
             \A e \in cache' :
                e.key = CacheKey(reply'.handler, reply'.path) => now <= e.exp]_vars

\* C39 witness: a reply from the cache at the very second its entry expires, for
\* a key whose earlier entry had expired and been replaced.
C39_Witness ==
    /\ reply # NoReply /\ reply.cached
    /\ reply.at - reply.payload.computed_at = CACHE_TTL_SEC
    /\ reply.payload.computed_at > CACHE_TTL_SEC

\* C40: a request for /v1/metrics/all is handled by metrics_all.
C40_MetricsAllRouted ==
    (reply # NoReply /\ reply.path = <<"v1", "metrics", "all">>) =>
        reply.handler = "metrics_all"

====
